---- MODULE Spec2Model ----
(***************************************************************************)
(* quicksort_gen (src/src/lib.rs): an in-place quicksort over Vec<i64>     *)
(* (partition, quicksort, sort) and over Vec<T> for T: Comparator + Copier *)
(* (partition_gen, quicksort_gen, sort_gen).                               *)
(*                                                                         *)
(* The recursion is modelled with an explicit call stack of frames, one    *)
(* step per statement of the source.  Rust indices are zero-based; the     *)
(* vector is a TLA+ sequence, so index i of the source is position i + 1.  *)
(***************************************************************************)
EXTENDS Integers, Sequences, FiniteSets

\* ------------------------------------------------------------------ bounds
\* Longest enumerated Vec<i64>, and the largest value it holds (1..MaxVal).
MaxLen == 4
MaxVal == 3
\* Longest enumerated Vec<Node>, and the largest pid a Node holds (1..MaxPid).
MaxGenLen == 3
MaxPid == 2

\* usize::MIN (lib.rs:20, 32) and usize::MAX, the value 0usize - 1 wraps to when
\* overflow checks are off.  65535 is usize::MAX of a 16-bit target; a wider
\* target has a larger one.  The model only uses usize::MAX - 1 >= arr.len().
UsizeMin == 0
UsizeMax == 65535

\* The call stack holds finitely many frames.  A run of the numeric sort on n
\* elements nests at most n + 1 quicksort frames and one partition frame, so
\* this limit is reached only by a recursion that does not shrink its range.
StackLimit == 2 * MaxLen + 4

VARIABLES
    arr,      \* the vector the caller handed over (&mut Vec)
    arr0,     \* the vector as it was when the call was made
    cmp,      \* "i64" for Vec<i64>; else which Comparator implementation T has
    status,   \* "idle", "running", "returned" or the fault that ended the call
    stack,    \* call stack, innermost frame last
    ret,      \* <<v>>: the value the last finished partition returned
    called    \* the entry point the caller invoked, with its arguments

vars == <<arr, arr0, cmp, status, stack, ret, called>>

\* ------------------------------------------------------------- primitives
\* arr[i] of the source.
At(a, i) == a[i + 1]

\* Index check of arr[i]: Rust panics when i >= arr.len().
InBounds(a, i) == i >= 0 /\ i < Len(a)

SwapOverwrite(a, i, k) == [a EXCEPT ![i + 1] = a[k + 1]]

\* Vec::swap(i, k) (lib.rs:12, 55).
Swap(a, i, k) == [a EXCEPT ![i + 1] = a[k + 1], ![k + 1] = a[i + 1]]

\* ------------------------------------------------------------ Node (tests)
\* String order: Rust compares Strings lexicographically by bytes; a proper
\* prefix is smaller.  Names are sequences of byte values.
RECURSIVE StrGreater(_, _)
StrGreater(s, t) ==
    IF s = <<>> THEN FALSE
    ELSE IF t = <<>> THEN TRUE
    ELSE IF Head(s) # Head(t) THEN Head(s) > Head(t)
    ELSE StrGreater(Tail(s), Tail(t))

\* Node::new(p, n).
Node(p, n) == [pid |-> p, name |-> n]

\* Copier for Node: a new Node with the same pid and a clone of the name.
copy(x) == [pid |-> x.pid, name |-> x.name]

\* Comparator for Node (lib.rs:101-111): Greater when self is after other on
\* (pid, name), otherwise Less; it never answers Equal.
NodeCompare(self, other) ==
    IF self.pid > other.pid THEN "Greater"
    ELSE IF self.pid = other.pid /\ StrGreater(self.name, other.name) THEN "Greater"
    ELSE "Less"

\* A Comparator that is a three-way total order on (pid, name): Equal for equal
\* values, Less or Greater otherwise.
ThreeWayCompare(self, other) ==
    IF self.pid > other.pid THEN "Greater"
    ELSE IF self.pid < other.pid THEN "Less"
    ELSE IF StrGreater(self.name, other.name) THEN "Greater"
    ELSE IF StrGreater(other.name, self.name) THEN "Less"
    ELSE "Equal"

\* The Comparator implementations T may have.  The trait (lib.rs:40-42) fixes
\* only the signature, so implementations that are no order are allowed too.
Comparators == {"Node", "ThreeWay", "AlwaysLess", "AlwaysEqual", "AlwaysGreater"}

\* T::compare(self, other) for the implementation c.
compare(c, self, other) ==
    CASE c = "Node" -> NodeCompare(self, other)
      [] c = "ThreeWay" -> ThreeWayCompare(self, other)
      [] c = "AlwaysLess" -> "Less"
      [] c = "AlwaysEqual" -> "Equal"
      [] c = "AlwaysGreater" -> "Greater"

\* ------------------------------------------------------------------ inputs
SeqsUpTo(S, n) == UNION {[1..k -> S] : k \in 0..n}

\* A six-element vector with no repeated value, and the same values ascending.
Scenario == <<5, 3, 8, 1, 9, 2>>
ScenarioSorted == <<1, 2, 3, 5, 8, 9>>

NumInputs == SeqsUpTo(1..MaxVal, MaxLen) \cup {Scenario}

\* "kobj2", "kobj", "systemd" as bytes.
Kobj2 == <<107, 111, 98, 106, 50>>
Kobj == <<107, 111, 98, 106>>
Systemd == <<115, 121, 115, 116, 101, 109, 100>>

\* The vector of test_generic_quicksort (lib.rs:138-142).
NodeScenario == <<Node(4, Kobj2), Node(2, Kobj), Node(1, Systemd)>>

NodePool == {Node(p, n) : p \in 1..MaxPid, n \in {Kobj, Kobj2}}

NodeInputs == SeqsUpTo(NodePool, MaxGenLen) \cup {NodeScenario}

\* ------------------------------------------------------------------- state
Init ==
    /\ \/ arr \in NumInputs /\ cmp = "i64"
       \/ arr \in NodeInputs /\ cmp \in Comparators
    /\ arr0 = arr
    /\ status = "idle"
    /\ stack = <<>>
    /\ ret = <<>>
    /\ called = <<>>

Top == stack[Len(stack)]
Depth == Len(stack)

\* The stack with its innermost frame replaced by f.
SetTop(f) == [stack EXCEPT ![Len(stack)] = f]

\* The stack after the innermost frame, changed to f, calls g.
Push(f, g) == Append(SetTop(f), g)

Pop == SubSeq(stack, 1, Len(stack) - 1)

Running(fn, pc) == status = "running" /\ Depth > 0 /\ Top.fn = fn /\ Top.pc = pc

\* A call made by the innermost frame: the callee's frame g is pushed and the
\* caller goes on as f; with the stack exhausted the process dies instead.
Call(f, g) ==
    IF Depth >= StackLimit
    THEN /\ status' = "stack_overflow"
         /\ UNCHANGED <<arr, arr0, cmp, stack, ret, called>>
    ELSE /\ stack' = Push(f, g)
         /\ UNCHANGED <<arr, arr0, cmp, status, ret, called>>

\* A panic: the call never returns; the vector stays as it is.
Panic(what) ==
    /\ status' = what
    /\ UNCHANGED <<arr, arr0, cmp, stack, ret, called>>

\* The innermost frame returns to its caller, or to the code that called the
\* entry point.
Return ==
    /\ stack' = Pop
    /\ status' = IF Depth = 1 THEN "returned" ELSE "running"
    /\ UNCHANGED <<arr, arr0, cmp, ret, called>>

\* a - b on usize with overflow checks off.
WrappingSub(a, b) == (a - b) % (UsizeMax + 1)

\* ---------------------------------------------------------- numeric sort
LtPivot(x, pivot) == x < pivot

GePivot(x, pivot) == x >= pivot

\* The test of partition's loop (lib.rs:11).
LePivot(x, pivot) == x <= pivot

\* pub fn sort (lib.rs:31-33): quicksort(arr, usize::MIN, arr.len()).
sort ==
    /\ status = "idle"
    /\ cmp = "i64"
    /\ status' = "running"
    /\ stack' = <<[fn |-> "quicksort", pc |-> "enter", low |-> UsizeMin, high |-> Len(arr)]>>
    /\ called' = <<"sort">>
    /\ UNCHANGED <<arr, arr0, cmp, ret>>

\* partition called on its own with any range 0 <= low < high <= arr.len().
call_partition ==
    /\ status = "idle"
    /\ cmp = "i64"
    /\ \E low \in 0..Len(arr), high \in 0..Len(arr) :
        /\ low < high
        /\ stack' = <<[fn |-> "partition", pc |-> "entry", low |-> low, high |-> high]>>
        /\ called' = <<"partition", low, high>>
    /\ status' = "running"
    /\ UNCHANGED <<arr, arr0, cmp, ret>>

\* quicksort's guards (lib.rs:20-22) and, on a range they reject, its return
\* (lib.rs:27).
quicksort_enter ==
    /\ Running("quicksort", "enter")
    /\ IF Top.low >= UsizeMin /\ Top.high >= UsizeMin /\ Top.low < Top.high
       THEN Call([Top EXCEPT !.pc = "mid"],
                 [fn |-> "partition", pc |-> "entry", low |-> Top.low, high |-> Top.high])
       ELSE Return

\* let pivot = arr[high - 1]; let mut idx = low; (lib.rs:7-8), and the loop's
\* j = low.  high - 1 overflows for high = 0: a panic with overflow checks on,
\* and usize::MAX with them off, which is no index of the vector.
partition_entry ==
    /\ Running("partition", "entry")
    /\ IF Top.high < 1
       THEN \E checks \in BOOLEAN :
                Panic(IF checks THEN "panic_overflow" ELSE "panic_index")
       ELSE IF ~InBounds(arr, Top.high - 1)
       THEN Panic("panic_index")
       ELSE /\ stack' = SetTop([fn |-> "partition", pc |-> "loop",
                                low |-> Top.low, high |-> Top.high,
                                pivot |-> At(arr, Top.high - 1),
                                idx |-> Top.low, j |-> Top.low])
            /\ UNCHANGED <<arr, arr0, cmp, status, ret, called>>

\* One iteration of for j in low..high (lib.rs:10-15).
partition_loop ==
    /\ Running("partition", "loop")
    /\ Top.j < Top.high
    /\ IF ~InBounds(arr, Top.j)
       THEN Panic("panic_index")
       ELSE /\ IF LePivot(At(arr, Top.j), Top.pivot)
               THEN /\ arr' = Swap(arr, Top.idx, Top.j)
                    /\ stack' = SetTop([Top EXCEPT !.idx = Top.idx + 1, !.j = Top.j + 1])
               ELSE /\ arr' = arr
                    /\ stack' = SetTop([Top EXCEPT !.j = Top.j + 1])
            /\ UNCHANGED <<arr0, cmp, status, ret, called>>

\* The loop is over and partition returns idx (lib.rs:16); in quicksort it
\* becomes mid (lib.rs:22).
partition_return ==
    /\ Running("partition", "loop")
    /\ Top.j >= Top.high
    /\ ret' = <<Top.idx>>
    /\ IF Depth = 1
       THEN /\ stack' = <<>>
            /\ status' = "returned"
       ELSE /\ stack' = [Pop EXCEPT ![Depth - 1] =
                            [fn |-> stack[Depth - 1].fn, pc |-> "left",
                             low |-> stack[Depth - 1].low, high |-> stack[Depth - 1].high,
                             mid |-> Top.idx]]
            /\ status' = "running"
    /\ UNCHANGED <<arr, arr0, cmp, called>>

\* quicksort(arr, low, mid - 1) (lib.rs:23).  mid - 1 overflows for mid = 0:
\* a panic with overflow checks on, usize::MAX with them off.
quicksort_left ==
    /\ Running("quicksort", "left")
    /\ IF Top.mid < 1
       THEN \E checks \in BOOLEAN :
                IF checks
                THEN Panic("panic_overflow")
                ELSE Call([Top EXCEPT !.pc = "right"],
                          [fn |-> "quicksort", pc |-> "enter",
                           low |-> Top.low, high |-> WrappingSub(Top.mid, 1)])
       ELSE Call([Top EXCEPT !.pc = "right"],
                 [fn |-> "quicksort", pc |-> "enter", low |-> Top.low, high |-> Top.mid - 1])

\* quicksort(arr, mid, high) (lib.rs:24).
quicksort_right ==
    /\ Running("quicksort", "right")
    /\ Call([Top EXCEPT !.pc = "ret"],
            [fn |-> "quicksort", pc |-> "enter", low |-> Top.mid, high |-> Top.high])

\* quicksort returns arr (lib.rs:27).
quicksort_return ==
    /\ Running("quicksort", "ret")
    /\ Return

\* ---------------------------------------------------------- generic sort
GreaterThanPivot(c, x, pivot) == compare(c, x, pivot) = "Greater"

\* The test of partition_gen's loop (lib.rs:54).
LessThanPivot(c, x, pivot) == compare(c, x, pivot) = "Less"

\* pub fn sort_gen (lib.rs:79-81): quicksort_gen(arr, usize::MIN, arr.len()).
sort_gen ==
    /\ status = "idle"
    /\ cmp \in Comparators
    /\ status' = "running"
    /\ stack' = <<[fn |-> "quicksort_gen", pc |-> "enter", low |-> UsizeMin, high |-> Len(arr)]>>
    /\ called' = <<"sort_gen">>
    /\ UNCHANGED <<arr, arr0, cmp, ret>>

\* quicksort_gen's guards (lib.rs:67-69) and, on a range they reject, its
\* return (lib.rs:74).
quicksort_gen_enter ==
    /\ Running("quicksort_gen", "enter")
    /\ IF Top.low >= UsizeMin /\ Top.high >= UsizeMin /\ Top.low < Top.high
       THEN Call([Top EXCEPT !.pc = "mid"],
                 [fn |-> "partition_gen", pc |-> "entry", low |-> Top.low, high |-> Top.high])
       ELSE Return

\* let pivot: T = T::copy(&arr[high - 1]); let mut idx = low; (lib.rs:50-51).
partition_gen_entry ==
    /\ Running("partition_gen", "entry")
    /\ IF Top.high < 1
       THEN \E checks \in BOOLEAN :
                Panic(IF checks THEN "panic_overflow" ELSE "panic_index")
       ELSE IF ~InBounds(arr, Top.high - 1)
       THEN Panic("panic_index")
       ELSE /\ stack' = SetTop([fn |-> "partition_gen", pc |-> "loop",
                                low |-> Top.low, high |-> Top.high,
                                pivot |-> copy(At(arr, Top.high - 1)),
                                idx |-> Top.low, j |-> Top.low])
            /\ UNCHANGED <<arr, arr0, cmp, status, ret, called>>

\* One iteration of for j in low..high (lib.rs:53-58).
partition_gen_loop ==
    /\ Running("partition_gen", "loop")
    /\ Top.j < Top.high
    /\ IF ~InBounds(arr, Top.j)
       THEN Panic("panic_index")
       ELSE /\ IF LessThanPivot(cmp, At(arr, Top.j), Top.pivot)
               THEN /\ arr' = Swap(arr, Top.idx, Top.j)
                    /\ stack' = SetTop([Top EXCEPT !.idx = Top.idx + 1, !.j = Top.j + 1])
               ELSE /\ arr' = arr
                    /\ stack' = SetTop([Top EXCEPT !.j = Top.j + 1])
            /\ UNCHANGED <<arr0, cmp, status, ret, called>>

\* partition_gen returns idx (lib.rs:59); in quicksort_gen it becomes mid
\* (lib.rs:69).
partition_gen_return ==
    /\ Running("partition_gen", "loop")
    /\ Top.j >= Top.high
    /\ ret' = <<Top.idx>>
    /\ stack' = [Pop EXCEPT ![Depth - 1] =
                    [fn |-> stack[Depth - 1].fn, pc |-> "left",
                     low |-> stack[Depth - 1].low, high |-> stack[Depth - 1].high,
                     mid |-> Top.idx]]
    /\ UNCHANGED <<arr, arr0, cmp, status, called>>

\* quicksort_gen(arr, low, mid - 1) (lib.rs:70).
quicksort_gen_left ==
    /\ Running("quicksort_gen", "left")
    /\ IF Top.mid < 1
       THEN \E checks \in BOOLEAN :
                IF checks
                THEN Panic("panic_overflow")
                ELSE Call([Top EXCEPT !.pc = "right"],
                          [fn |-> "quicksort_gen", pc |-> "enter",
                           low |-> Top.low, high |-> WrappingSub(Top.mid, 1)])
       ELSE Call([Top EXCEPT !.pc = "right"],
                 [fn |-> "quicksort_gen", pc |-> "enter",
                  low |-> Top.low, high |-> Top.mid - 1])

\* quicksort_gen(arr, mid, high) (lib.rs:71).
quicksort_gen_right ==
    /\ Running("quicksort_gen", "right")
    /\ Call([Top EXCEPT !.pc = "ret"],
            [fn |-> "quicksort_gen", pc |-> "enter", low |-> Top.mid, high |-> Top.high])

\* quicksort_gen returns arr (lib.rs:74).
quicksort_gen_return ==
    /\ Running("quicksort_gen", "ret")
    /\ Return

\* ------------------------------------------------------------ specification
Next ==
    \/ sort
    \/ call_partition
    \/ quicksort_enter
    \/ partition_entry
    \/ partition_loop
    \/ partition_return
    \/ quicksort_left
    \/ quicksort_right
    \/ quicksort_return
    \/ sort_gen
    \/ quicksort_gen_enter
    \/ partition_gen_entry
    \/ partition_gen_loop
    \/ partition_gen_return
    \/ quicksort_gen_left
    \/ quicksort_gen_right
    \/ quicksort_gen_return

Spec == Init /\ [][Next]_vars

\* The same steps, with every statement that can run eventually run: the code
\* is sequential and synchronous, so a call that has a next statement takes it.
LiveSpec == Spec /\ WF_vars(Next)

\* ------------------------------------------------------- claim vocabulary
\* The call has ended: it returned, or a fault ended it.
Terminated == status \notin {"idle", "running"}

Faulted == status \in {"panic_overflow", "panic_index", "stack_overflow"}

CalledSort == called = <<"sort">>
CalledSortGen == called = <<"sort_gen">>
CalledPartition == called # <<>> /\ called[1] = "partition"

Count(a, v) == Cardinality({i \in DOMAIN a : a[i] = v})

SameMultiset(a, b) ==
    /\ Len(a) = Len(b)
    /\ \A i \in DOMAIN a : Count(a, a[i]) = Count(b, a[i])

Ascending(a) == \A i \in 1..(Len(a) - 1) : a[i] <= a[i + 1]

StrictlyAscending(a) == \A i \in 1..(Len(a) - 1) : a[i] < a[i + 1]

NoAdjacentGreater(c, a) ==
    \A i \in 1..(Len(a) - 1) : compare(c, a[i], a[i + 1]) # "Greater"

RangeLen(f) == IF f.high >= f.low THEN f.high - f.low ELSE 0

IsDriver(f) == f.fn \in {"quicksort", "quicksort_gen"}

\* What holds once a call of sort has ended: it returned, no fault ended it,
\* and the vector is ascending.
SortPost ==
    (CalledSort /\ Terminated) =>
        /\ status = "returned"
        /\ Ascending(arr)
        /\ arr0 = Scenario => arr = ScenarioSorted

\* What holds once a call of sort_gen on Nodes has ended: it returned, and
\* every element compares Less with its successor.
SortGenNodePost ==
    (CalledSortGen /\ cmp = "Node" /\ Terminated) =>
        /\ status = "returned"
        /\ \A i \in 1..(Len(arr) - 1) : compare("Node", arr[i], arr[i + 1]) = "Less"
        /\ arr0 = NodeScenario => [i \in 1..3 |-> arr[i].pid] = <<1, 2, 4>>

\* ------------------------------------------------------------------ claims

\* C1: every call of sort(arr) returns, no fault ends it, and afterwards
\* arr[i-1] <= arr[i] for all 1 <= i < len; the vector [5, 3, 8, 1, 9, 2]
\* ends as [1, 2, 3, 5, 8, 9].
C1_SortAscending ==
    /\ [](SortPost)
    /\ CalledSort ~> (status = "returned")

C1_Witness ==
    /\ CalledSort
    /\ status = "returned"
    /\ arr0 = Scenario
    /\ arr = ScenarioSorted

\* C2: with a compare that is a three-way total order, sort_gen(arr) returns
\* and afterwards compare(arr[i-1], arr[i]) is not Greater for all 1 <= i < len.
C2_ThreeWaySorted ==
    (CalledSortGen /\ cmp = "ThreeWay" /\ Terminated) =>
        /\ status = "returned"
        /\ NoAdjacentGreater(cmp, arr)

\* C3: in every state of a call of sort, sort_gen or partition the vector holds
\* the multiset of elements it held when the call was made, and has its length.
C3_Permutation == SameMultiset(arr, arr0)

C3_Witness ==
    /\ CalledSortGen
    /\ status = "running"
    /\ arr # arr0
    /\ Top.fn = "partition_gen"

\* C4: on a vector of length 0 or 1, sort and sort_gen (whatever the
\* Comparator) return without a fault and leave the vector unchanged.
C4_EmptySingleton ==
    ((CalledSort \/ CalledSortGen) /\ Len(arr0) <= 1 /\ Terminated) =>
        /\ status = "returned"
        /\ arr = arr0

C6_NodeSorted ==
    /\ [](SortGenNodePost)
    /\ (CalledSortGen /\ cmp = "Node") ~> (status = "returned")

C6_Witness ==
    /\ CalledSortGen
    /\ cmp = "Node"
    /\ status = "returned"
    /\ arr0 = NodeScenario
    /\ arr = <<Node(1, Systemd), Node(2, Kobj), Node(4, Kobj2)>>

\* C7: for every Comparator implementation, an order or not, sort_gen returns
\* without a fault and leaves a permutation of the input.
C7_AnyComparatorNoFault ==
    (CalledSortGen /\ Terminated) =>
        /\ ~Faulted
        /\ SameMultiset(arr, arr0)

\* C8: in quicksort, and in quicksort_gen with a three-way total order, every
\* recursive call is on a range strictly shorter than the caller's, and
\* never on the caller's range again.
C8_CallsShrink ==
    [][(/\ cmp \in {"i64", "ThreeWay"}
        /\ status = "running"
        /\ Len(stack') = Len(stack) + 1
        /\ IsDriver(Top)
        /\ IsDriver(stack'[Len(stack')]))
       => (/\ RangeLen(stack'[Len(stack')]) < RangeLen(Top)
           /\ <<stack'[Len(stack')].low, stack'[Len(stack')].high>> # <<Top.low, Top.high>>)]_vars

\* C9: every call of quicksort, quicksort_gen, partition and partition_gen
\* reached from sort or sort_gen has 0 <= low <= high <= arr.len(), mid - 1
\* never underflows, and partition and partition_gen are entered with low < high.
C9_RangeInvariant ==
    (CalledSort \/ (CalledSortGen /\ cmp \in {"Node", "ThreeWay"})) =>
        /\ status # "panic_overflow"
        /\ \A d \in 1..Len(stack) :
            /\ 0 <= stack[d].low
            /\ stack[d].low <= stack[d].high
            /\ stack[d].high <= Len(arr)
            /\ ~IsDriver(stack[d]) => stack[d].low < stack[d].high

\* C10: partition(arr, low, high) with 0 <= low < high <= len and p the value
\* at high - 1 on entry returns idx with low < idx <= high, arr[idx - 1] = p,
\* values <= p in [low, idx), values > p in [idx, high), and every position
\* outside [low, high) as it was on entry.
C10_PartitionPost ==
    (CalledPartition /\ Terminated) =>
        /\ status = "returned"
        /\ ret # <<>>
        /\ LET low == called[2]
               high == called[3]
               p == At(arr0, high - 1)
               idx == ret[1]
           IN /\ low < idx /\ idx <= high
              /\ At(arr, idx - 1) = p
              /\ \A k \in low..(idx - 1) : At(arr, k) <= p
              /\ \A k \in idx..(high - 1) : At(arr, k) > p
              /\ \A k \in 0..(Len(arr0) - 1) :
                    (k < low \/ k >= high) => At(arr, k) = At(arr0, k)
              /\ Len(arr) = Len(arr0)

C10_Witness ==
    /\ CalledPartition
    /\ status = "returned"
    /\ called[2] > 0
    /\ called[3] < Len(arr)
    /\ ret[1] < called[3]
    /\ arr # arr0

====
